---- MODULE Spec2Model ----
(***************************************************************************)
(* A model of src/src/pages/app.py: the module-level start-up sequence     *)
(* (model path check, output suppression, Llama construction, restoring    *)
(* of the streams, app.run) and the two Flask routes, index and chat.      *)
(* Strings are sequences of one-character strings.                         *)
(***************************************************************************)
EXTENDS Naturals, Sequences, FiniteSets, Bags

\* ---------------------------------------------------------------- bounds
\* Longest request message and longest generated text, in characters.
MaxLen == 3
\* Most requests that are inside the model call at the same time.
MaxInFlight == 2

\* ------------------------------------------------------------ characters
Whitespace == {" "}
Chars == Whitespace \cup {"a"}
\* The host CPU counts os.cpu_count() is taken from.
CpuCounts == {1, 4}

Strings == UNION {[1..n -> Chars] : n \in 0..MaxLen}

\* ------------------------------------------------------ program constants
N_CTX == 2048
MAX_TOKENS == 256
\* temperature=0.7, kept as the literal of the source
TEMPERATURE == "0.7"
STOP == <<"[", "/", "I", "N", "S", "T", "]">>
INST_OPEN == <<"[", "I", "N", "S", "T", "]">>
MODEL_PATH == "models/llama-2-7b-chat.Q4_K_M.gguf"

\* ----------------------------------------------------------------- state
VARIABLES
  pc,            \* where the process is: start, checked, constructing,
                 \* constructed, initialized, serving, crashed
  model_exists,  \* os.path.exists(MODEL_PATH)
  cpu_count,     \* os.cpu_count()
  threaded,      \* whether the server started by app.run handles each
                 \* request in a thread of its own
  llm,           \* the module-level name llm
  llm_created,   \* how many times Llama(...) has returned an instance
  sys_stdout,    \* sys.stdout
  sys_stderr,    \* sys.stderr
  saved,         \* _saved_stdout, _saved_stderr
  error,         \* the exception that ended the process, if any
  banner,        \* the stream the start-up banner was printed to
  inflight,      \* the chat requests that are inside llm(...): a bag of
                 \* the handlers' live locals (user_msg and the call made)
  observed       \* what was seen last at the server's boundary: the
                 \* request that entered llm(...), or the response sent

vars ==
  <<pc, model_exists, cpu_count, threaded, llm, llm_created, sys_stdout,
    sys_stderr, saved, error, banner, inflight, observed>>

env == <<model_exists, cpu_count, threaded>>
streams == <<sys_stdout, sys_stderr, saved>>
requests == <<inflight, observed>>

\* ------------------------------------------------------------ str.strip()
RECURSIVE LStrip(_)
LStrip(s) ==
  IF s # <<>> /\ Head(s) \in Whitespace THEN LStrip(Tail(s)) ELSE s

RECURSIVE RStrip(_)
RStrip(s) ==
  IF s # <<>> /\ s[Len(s)] \in Whitespace
  THEN RStrip(SubSeq(s, 1, Len(s) - 1))
  ELSE s

Strip(s) == RStrip(LStrip(s))

\* ------------------------------------------------------- request bodies
\* What request.get_json() returns:
\*   falsy        a falsy JSON value (null, {}, [], 0, "", false)
\*   non_object   a truthy JSON value that is no object (no .get)
\*   no_message   an object without the key 'message'
\*   non_string   an object whose 'message' is no string (null, a number)
\*   string       an object whose 'message' is the string in .message
Body(kind, message) == [kind |-> kind, message |-> message]

Bodies ==
  {Body(k, <<>>) : k \in {"falsy", "non_object", "no_message", "non_string"}}
    \cup {Body("string", m) : m \in Strings}

\* request.get_json() or {}; data.get('message', '').strip()
\* ok = FALSE stands for the AttributeError of .get or .strip on a value
\* that has no such method.
UserMsg(body) ==
  CASE body.kind \in {"falsy", "no_message"} -> [ok |-> TRUE, user_msg |-> Strip(<<>>)]
    [] body.kind = "string" -> [ok |-> TRUE, user_msg |-> Strip(body.message)]
    [] OTHER -> [ok |-> FALSE, user_msg |-> <<>>]

\* A plausible slip: the guard tests for a missing value only.
EmptyInputNever(user_msg) == FALSE

\* if not user_msg
EmptyInput(user_msg) == user_msg = <<>>

\* A plausible slip: the closing delimiter is left out of the prompt.
InstNoClose(user_msg) == INST_OPEN \o <<" ">> \o user_msg

\* A plausible slip: the reply sent last is kept and put in front of the
\* next message (a conversation history).
InstWithHistory(user_msg) ==
  INST_OPEN \o <<" ">>
    \o (IF observed.has_reply THEN observed.reply ELSE <<>>)
    \o user_msg \o <<" ">> \o STOP

\* inst = f"[INST] {user_msg} [/INST]"
Inst(user_msg) == INST_OPEN \o <<" ">> \o user_msg \o <<" ">> \o STOP

\* llm(prompt=inst, max_tokens=256, stop=["[/INST]"])
LlmCall(user_msg) ==
  [prompt |-> Inst(user_msg), max_tokens |-> MAX_TOKENS, stop |-> <<STOP>>]

\* A plausible slip: the last choice is taken instead of the first.
ReplyLastChoice(choices) == Strip(choices[Len(choices)])

\* reply = resp['choices'][0]['text'].strip()
Reply(choices) == Strip(choices[1])

\* ------------------------------------------------------------ Llama(...)
\* A plausible slip: the thread count is hard-coded.
LlamaConfigOneThread(cpus) ==
  [bound |-> TRUE, model_path |-> MODEL_PATH, n_ctx |-> N_CTX,
   temperature |-> TEMPERATURE, verbose |-> FALSE, n_threads |-> 1]

\* Llama(model_path=MODEL_PATH, n_ctx=2048, temperature=0.7, verbose=False,
\*       n_threads=os.cpu_count())
LlamaConfig(cpus) ==
  [bound |-> TRUE, model_path |-> MODEL_PATH, n_ctx |-> N_CTX,
   temperature |-> TEMPERATURE, verbose |-> FALSE, n_threads |-> cpus]

\* The name llm before line 17 has bound it.
Unbound ==
  [bound |-> FALSE, model_path |-> "", n_ctx |-> 0,
   temperature |-> "", verbose |-> FALSE, n_threads |-> 0]

\* ---------------------------------------------- what a client observes
NoCalls == <<>>
NoChoices == <<>>
NoBody == Body("none", <<>>)

\* POST /chat has entered llm(...) and is waiting for it: no response yet.
Called(body, calls) ==
  [route |-> "/chat", phase |-> "called", status |-> 0, has_reply |-> FALSE,
   reply |-> <<>>, body |-> body, calls |-> calls, choices |-> NoChoices]

\* jsonify(reply=reply): HTTP 200, {"reply": reply}
JsonReply(body, calls, choices, reply) ==
  [route |-> "/chat", phase |-> "responded", status |-> 200,
   has_reply |-> TRUE, reply |-> reply, body |-> body, calls |-> calls,
   choices |-> choices]

\* A plausible slip: the exception is caught and answered with a reply.
ServerErrorCaught(route, body, calls) ==
  [route |-> route, phase |-> "responded", status |-> 200,
   has_reply |-> TRUE, reply |-> <<>>, body |-> body, calls |-> calls,
   choices |-> NoChoices]

\* An exception that leaves the view: the framework's HTTP 500, no JSON body.
ServerError(route, body, calls) ==
  [route |-> route, phase |-> "responded", status |-> 500,
   has_reply |-> FALSE, reply |-> <<>>, body |-> body, calls |-> calls,
   choices |-> NoChoices]

\* render_template('chat.html'): HTTP 200, the page.
Page ==
  [route |-> "/", phase |-> "responded", status |-> 200, has_reply |-> FALSE,
   reply |-> <<>>, body |-> NoBody, calls |-> NoCalls, choices |-> NoChoices]

Nothing ==
  [route |-> "none", phase |-> "none", status |-> 0, has_reply |-> FALSE,
   reply |-> <<>>, body |-> NoBody, calls |-> NoCalls, choices |-> NoChoices]

\* A plausible slip: an empty message is rejected instead of answered.
EmptyReplyRejected(body) ==
  [route |-> "/chat", phase |-> "responded", status |-> 400,
   has_reply |-> FALSE, reply |-> <<>>, body |-> body, calls |-> NoCalls,
   choices |-> NoChoices]

\* return jsonify(reply='')
EmptyReply(body) == JsonReply(body, NoCalls, NoChoices, <<>>)

\* What the model returns: one choice, or two (the code reads choices[0]).
OtherChoice == <<"a", "a">>
ChoiceLists == {<<t>> : t \in Strings} \cup {<<t, OtherChoice>> : t \in Strings}

Init ==
  /\ pc = "start"
  /\ model_exists \in BOOLEAN
  /\ cpu_count \in CpuCounts
  /\ threaded \in BOOLEAN
  /\ llm = Unbound
  /\ llm_created = 0
  /\ sys_stdout = "stdout"
  /\ sys_stderr = "stderr"
  /\ saved = [stdout |-> "unset", stderr |-> "unset"]
  /\ error = "none"
  /\ banner = "none"
  /\ inflight = EmptyBag
  /\ observed = Nothing

\* -------------------------------------------------------------- start-up
\* A plausible slip: the existence check is left out.
ModelPathOkUnchecked(exists) == TRUE

\* os.path.exists(MODEL_PATH)
ModelPathOk(exists) == exists

\* if not os.path.exists(MODEL_PATH): raise FileNotFoundError(...)
CheckModelPath ==
  /\ pc = "start"
  /\ IF ModelPathOk(model_exists)
     THEN pc' = "checked" /\ error' = error
     ELSE pc' = "crashed" /\ error' = "FileNotFoundError"
  /\ UNCHANGED <<env, llm, llm_created, streams, banner, requests>>

\* _saved_stdout, _saved_stderr = sys.stdout, sys.stderr
\* sys.stdout = io.StringIO(); sys.stderr = io.StringIO()
SuppressOutput ==
  /\ pc = "checked"
  /\ saved' = [stdout |-> sys_stdout, stderr |-> sys_stderr]
  /\ sys_stdout' = "StringIO"
  /\ sys_stderr' = "StringIO"
  /\ pc' = "constructing"
  /\ UNCHANGED <<env, llm, llm_created, error, banner, requests>>

\* llm = Llama(...): the constructor returns an instance.
LlamaReturns ==
  /\ pc = "constructing"
  /\ model_exists
  /\ llm' = LlamaConfig(cpu_count)
  /\ llm_created' = llm_created + 1
  /\ pc' = "constructed"
  /\ UNCHANGED <<env, streams, error, banner, requests>>

\* llm = Llama(...): the constructor raises (a file that is no model, out
\* of memory; always when the file is missing). Nothing catches it: the
\* module stops at line 17 and line 25 is not run.
LlamaRaises ==
  /\ pc = "constructing"
  /\ pc' = "crashed"
  /\ error' = "LlamaError"
  /\ UNCHANGED <<env, llm, llm_created, streams, banner, requests>>

\* sys.stdout, sys.stderr = _saved_stdout, _saved_stderr
Restored(s) == [stdout |-> s.stdout, stderr |-> s.stderr]

RestoreOutput ==
  /\ pc = "constructed"
  /\ sys_stdout' = Restored(saved).stdout
  /\ sys_stderr' = Restored(saved).stderr
  /\ pc' = "initialized"
  /\ UNCHANGED <<env, llm, llm_created, saved, error, banner, requests>>

\* print(f"Starting server on http://{host}:{port}/"); app.run(...)
Main ==
  /\ pc = "initialized"
  /\ banner' = sys_stdout
  /\ pc' = "serving"
  /\ UNCHANGED <<env, llm, llm_created, streams, error, requests>>

\* ---------------------------------------------------------------- routes
\* A plausible slip: a request is taken while another is being handled.
CanHandleAlways == pc = "serving"

\* app.run(host=host, port=port, debug=True) passes no threaded option, so
\* the framework's default decides: the server takes a request always when
\* threaded, and otherwise only when no request is being handled.
CanHandle == pc = "serving" /\ (threaded \/ inflight = EmptyBag)

\* GET /: index()
Index ==
  /\ CanHandle
  /\ \E found \in BOOLEAN :
       observed' = IF found THEN Page ELSE ServerError("/", NoBody, NoCalls)
  /\ UNCHANGED <<pc, env, llm, llm_created, streams, error, banner, inflight>>

\* POST /chat, lines 36-39: the request ends before the model is called,
\* with the empty reply or with the AttributeError of line 37.
ChatNoCall ==
  /\ CanHandle
  /\ \E body \in Bodies :
       LET u == UserMsg(body) IN
         /\ ~u.ok \/ EmptyInput(u.user_msg)
         /\ observed' = IF u.ok THEN EmptyReply(body)
                        ELSE ServerError("/chat", body, NoCalls)
  /\ UNCHANGED <<pc, env, llm, llm_created, streams, error, banner, inflight>>

\* POST /chat, lines 36-47: the handler enters llm(...).
ChatCall ==
  /\ CanHandle
  /\ BagCardinality(inflight) < MaxInFlight
  /\ \E body \in Bodies :
       LET u == UserMsg(body) IN
         /\ u.ok /\ ~EmptyInput(u.user_msg)
         /\ inflight' = inflight (+)
              SetToBag({[user_msg |-> u.user_msg,
                         calls |-> <<LlmCall(u.user_msg)>>]})
         /\ observed' = Called(body, <<LlmCall(u.user_msg)>>)
  /\ UNCHANGED <<pc, env, llm, llm_created, streams, error, banner>>

\* lines 43-49: llm(...) returns and the handler answers.
LlmReturns ==
  /\ pc = "serving"
  /\ \E r \in BagToSet(inflight), choices \in ChoiceLists :
       /\ inflight' = inflight (-) SetToBag({r})
       /\ observed' = JsonReply(NoBody, r.calls, choices, Reply(choices))
  /\ UNCHANGED <<pc, env, llm, llm_created, streams, error, banner>>

\* line 43: llm(...) raises; nothing in chat() catches it.
LlmRaises ==
  /\ pc = "serving"
  /\ \E r \in BagToSet(inflight) :
       /\ inflight' = inflight (-) SetToBag({r})
       /\ observed' = ServerError("/chat", NoBody, r.calls)
  /\ UNCHANGED <<pc, env, llm, llm_created, streams, error, banner>>

Next ==
  \/ CheckModelPath
  \/ SuppressOutput
  \/ LlamaReturns
  \/ LlamaRaises
  \/ RestoreOutput
  \/ Main
  \/ Index
  \/ ChatNoCall
  \/ ChatCall
  \/ LlmReturns
  \/ LlmRaises

Spec == Init /\ [][Next]_vars

\* ============================================================ properties
\* Whitespace-only (or empty) text, said without Strip.
AllWhitespace(m) == \A i \in 1..Len(m) : m[i] \in Whitespace

\* t is m without its leading and trailing whitespace, said without Strip:
\* the part of m from its first to its last character that is no whitespace.
IsTrimOf(t, m) ==
  \/ AllWhitespace(m) /\ t = <<>>
  \/ \E i, j \in 1..Len(m) :
       /\ i <= j
       /\ m[i] \notin Whitespace
       /\ m[j] \notin Whitespace
       /\ \A k \in 1..(i - 1) : m[k] \in Whitespace
       /\ \A k \in (j + 1)..Len(m) : m[k] \in Whitespace
       /\ t = SubSeq(m, i, j)

\* A JSON body that omits message, or whose message is empty or whitespace.
BlankBody(b) ==
  \/ b.kind \in {"falsy", "no_message"}
  \/ b.kind = "string" /\ AllWhitespace(b.message)

\* A JSON object whose message is a string that is not blank after trimming.
SpeakingBody(b) == b.kind = "string" /\ ~AllWhitespace(b.message)

ChatResponded == observed.route = "/chat" /\ observed.phase = "responded"
ChatCalled == observed.route = "/chat" /\ observed.phase = "called"
\* The response of a request whose model call returned / raised.
ModelReturned == ChatResponded /\ observed.choices # NoChoices
ModelFailed ==
  ChatResponded /\ observed.calls # NoCalls /\ observed.choices = NoChoices

\* C1: a POST /chat whose JSON body omits message, or whose message is empty
\* or whitespace only, is answered {"reply": ""} with HTTP 200, and no such
\* request ever enters the model call.
C1_EmptyInputNoModel ==
  /\ (ChatResponded /\ BlankBody(observed.body)) =>
       /\ observed.status = 200
       /\ observed.has_reply
       /\ observed.reply = <<>>
       /\ observed.calls = <<>>
       /\ observed.choices = <<>>
  /\ ChatCalled => ~BlankBody(observed.body)
  /\ \A r \in BagToSet(inflight) : ~AllWhitespace(r.user_msg)

\* C1 happens: a whitespace-only message has been answered.
C1_Witness ==
  /\ ChatResponded
  /\ observed.body = Body("string", <<" ", " ">>)
  /\ observed.status = 200

\* C2: a POST /chat whose message is not blank after trimming calls the
\* model once, with the prompt "[INST] " + trim(message) + " [/INST]",
\* max_tokens 256 and the one stop sequence "[/INST]".
C2_PromptWrapped ==
  /\ ChatCalled =>
       /\ SpeakingBody(observed.body)
       /\ Len(observed.calls) = 1
       /\ \E t \in Strings :
            /\ IsTrimOf(t, observed.body.message)
            /\ observed.calls[1].prompt =
                 <<"[", "I", "N", "S", "T", "]", " ">> \o t
                   \o <<" ", "[", "/", "I", "N", "S", "T", "]">>
       /\ observed.calls[1].max_tokens = 256
       /\ observed.calls[1].stop = << <<"[", "/", "I", "N", "S", "T", "]">> >>
       /\ \E r \in BagToSet(inflight) : r.calls = observed.calls
  /\ \A r \in BagToSet(inflight) : Len(r.calls) = 1
  /\ ChatResponded => Len(observed.calls) <= 1
  /\ (ModelReturned \/ ModelFailed) => Len(observed.calls) = 1

\* C2 happens: " a " has entered the model call as "[INST] a [/INST]".
C2_Witness ==
  /\ ChatCalled
  /\ observed.body.message = <<" ", "a", " ">>
  /\ observed.calls[1].prompt =
       <<"[", "I", "N", "S", "T", "]", " ", "a", " ",
         "[", "/", "I", "N", "S", "T", "]">>

\* C3: when the model call returns, reply is the text of choices[0] without
\* its leading and trailing whitespace, whatever the other choices are.
C3_ReplyIsTrimmedFirstChoice ==
  ModelReturned =>
    /\ observed.has_reply
    /\ IsTrimOf(observed.reply, observed.choices[1])

\* C3 happens: the model returned " a " and another choice; the reply is "a".
C3_Witness ==
  /\ ModelReturned
  /\ observed.choices = << <<" ", "a", " ">>, OtherChoice >>
  /\ observed.reply = <<"a">>

\* C4: a non-empty string message is answered with HTTP 200 and a string
\* reply unless the model call failed: a POST /chat ends in an error only
\* when the body is no object, the message is no string, or the model call
\* raised.
C4_NonEmptyMessageSucceeds ==
  /\ (ChatResponded /\ observed.body.kind = "string"
        /\ observed.body.message # <<>>) =>
       observed.status = 200 /\ observed.has_reply
  /\ ChatCalled => observed.body.kind = "string" /\ observed.body.message # <<>>
  /\ ModelReturned => observed.status = 200 /\ observed.has_reply
  /\ (ChatResponded /\ observed.status # 200) =>
       \/ observed.body.kind \in {"non_object", "non_string"}
            /\ observed.calls = NoCalls
       \/ ModelFailed

\* C4 happens: the model call of a request has returned and it was answered.
C4_Witness ==
  /\ ModelReturned
  /\ observed.status = 200
  /\ observed.calls[1].prompt = Inst(<<"a", " ", "a">>)

\* C5: with the model file missing, start-up ends in the error raised by
\* the path check, before Llama(...) is entered, and nothing is ever served.
C5_MissingModelFailsStartup ==
  ~model_exists =>
    /\ pc \in {"start", "crashed"}
    /\ pc = "crashed" => error = "FileNotFoundError"
    /\ llm = Unbound
    /\ llm_created = 0
    /\ sys_stdout = "stdout" /\ sys_stderr = "stderr"
    /\ saved.stdout = "unset"
    /\ banner = "none"
    /\ observed = Nothing
    /\ inflight = EmptyBag

\* C5 happens: the process has ended at the path check.
C5_Witness == ~model_exists /\ pc = "crashed" /\ error = "FileNotFoundError"

\* C6: a model call that raises is neither caught nor retried: its request
\* ends in HTTP 500 without a reply after exactly one model call; the
\* process keeps serving (it takes the next request), and a request whose
\* model call returns after that gets its HTTP 200 reply.
C6_FailureState ==
  ModelFailed =>
    /\ observed.status = 500
    /\ ~observed.has_reply
    /\ Len(observed.calls) = 1
    /\ pc = "serving"
    /\ error = "none"
    /\ inflight = EmptyBag => ENABLED ChatCall

C6_FailureStep ==
  ModelFailed =>
    /\ pc' = "serving"
    /\ llm' = llm
    /\ (observed'.phase = "responded" /\ observed'.choices # NoChoices) =>
         /\ observed'.status = 200
         /\ observed'.has_reply
         /\ IsTrimOf(observed'.reply, observed'.choices[1])

C6_InferenceFailureIsPerRequest == [][C6_FailureState /\ C6_FailureStep]_vars

\* C6 happens: the single-threaded server has answered a failed model call
\* and is idle again.
C6_Witness ==
  /\ ModelFailed
  /\ ~threaded
  /\ inflight = EmptyBag
  /\ observed.status = 500

\* C7: requests are independent of what was handled before them: of two
\* requests that follow one another, the same message gives the same model
\* call, and the same model call with the same returned text gives the same
\* response.
C7_SameCall ==
  (ChatCalled /\ observed'.route = "/chat" /\ observed'.phase = "called"
     /\ observed'.body = observed.body) =>
    observed'.calls = observed.calls

C7_SameResponse ==
  (ChatResponded /\ observed'.route = "/chat" /\ observed'.phase = "responded"
     /\ observed'.body = observed.body
     /\ observed'.calls = observed.calls
     /\ observed'.choices = observed.choices) =>
    /\ observed'.status = observed.status
    /\ observed'.has_reply = observed.has_reply
    /\ observed'.reply = observed.reply

C8_OneModelCallAtATime == BagCardinality(inflight) <= 1

\* C8 as amended: where the server started by app.run is single-threaded,
\* no two requests are inside the model call at the same time, and each
\* request inside it has made one call.
C8_SingleThreadedOneCall ==
  /\ ~threaded => BagCardinality(inflight) <= 1
  /\ \A r \in BagToSet(inflight) : Len(r.calls) = 1

\* C8 happens: the single-threaded server is inside a model call.
C8_Witness == ~threaded /\ BagCardinality(inflight) = 1

\* C9: llm is bound once, before any request is handled, to a Llama made
\* with n_ctx 2048, temperature 0.7 and n_threads = os.cpu_count(); once
\* start-up is over no step rebinds or changes it.
C9_Config ==
  /\ pc \in {"constructed", "initialized", "serving"} =>
       /\ llm.bound
       /\ llm.n_ctx = 2048
       /\ llm.temperature = "0.7"
       /\ llm.n_threads = cpu_count
       /\ llm_created = 1
  /\ (observed # Nothing \/ inflight # EmptyBag) => llm.bound /\ pc = "serving"
  /\ pc \in {"start", "checked", "constructing", "crashed"} =>
       ~llm.bound /\ llm_created = 0

C9_Frame ==
  pc \in {"constructed", "initialized", "serving"} =>
    llm' = llm /\ llm_created' = llm_created

C9_ModelSessionCreatedOnce == [][C9_Config /\ C9_Frame]_vars

\* C9 happens: requests have been served, one of them through the model.
C9_Witness ==
  /\ pc = "serving"
  /\ ModelReturned
  /\ llm.n_threads = 4
  /\ llm_created = 1

\* C10 as stated: once construction has ended, by a return or by an
\* exception, sys.stdout and sys.stderr are the streams that were in place
\* before it, and the banner goes to the original stdout.
C10_StreamsRestored ==
  pc \in {"initialized", "serving", "crashed"} =>
    /\ sys_stdout = "stdout"
    /\ sys_stderr = "stderr"
    /\ banner \in {"none", "stdout"}

====
